---- MODULE Spec2Model ----
(***************************************************************************)
(* Personal Happiness Assistant API: src/src/index.ts over the three       *)
(* tables of src/src/db/schema.ts.                                         *)
(*                                                                         *)
(* The store is the three tables.  A request occupies a slot of `reqs`     *)
(* and advances one step per awaited operation of its handler (a token     *)
(* verification, a select, an insert, a delete, the completion call), so   *)
(* that requests in different slots interleave exactly at the awaits.      *)
(* Storage operations fail only where a constraint of the schema rejects   *)
(* them (users.email unique, user_context.context_value not null).         *)
(***************************************************************************)
EXTENDS Integers, Sequences, FiniteSets, TLC

VARIABLES users, entries, facts, reqs

vars == <<users, entries, facts, reqs>>

store == <<users, entries, facts>>

(***************************************************************************)
(* JavaScript / JSON values: a string, null, or undefined (absent).        *)
(***************************************************************************)
JStr(s) == [s |-> s, t |-> "string"]

JNull == [s |-> "", t |-> "null"]

JUndef == [s |-> "", t |-> "undefined"]

\* a check for absence alone, which lets the empty string through
FalsyAbsentOnly(v) == v.t # "string"

\* `!v` for a string, null or undefined
Falsy(v) == v.t # "string" \/ v.s = ""

\* `v || d`
OrElse(v, d) == IF Falsy(v) THEN d ELSE v

\* `${v}` in a template literal, and String(v)
ToText(v) == IF v.t = "string" THEN v.s ELSE v.t

\* what drizzle binds for a column value: undefined becomes the column
\* default, which is NULL for a column without one
ColumnValue(v) == IF v.t = "undefined" THEN JNull ELSE v

(***************************************************************************)
(* Tokens (hono/jwt sign and verify) and the Authorization header.         *)
(***************************************************************************)
JWT_SECRET == "server-secret"

OtherSecret == "other-secret"

sign(payload, secret) == [userId |-> payload.userId, sig |-> secret]

\* a decode that does not check the signature
verifyOkUnchecked(token, secret) == token.userId = token.userId

\* verify(token, secret) throws unless the signature was made with secret
verifyOk(token, secret) == token.sig = secret

verifyPayload(token) == [userId |-> token.userId]

NoToken == [userId |-> 0, sig |-> ""]

NoHeader == [token |-> NoToken, present |-> FALSE, scheme |-> ""]

Header(scheme, token) == [token |-> token, present |-> TRUE, scheme |-> scheme]

\* authHeader.startsWith('Bearer ')
StartsWithBearer(h) == h.scheme = "Bearer "

\* authHeader.substring(7)
Substring7(h) == h.token

(***************************************************************************)
(* Requests and responses.                                                 *)
(***************************************************************************)
NoData == [none |-> TRUE]

NoResp == [status |-> 0, error |-> "", data |-> NoData]

ErrorResp(status, message) == [status |-> status, error |-> message, data |-> NoData]

OkResp(data) == [status |-> 200, error |-> "", data |-> data]

\* What fetch gives: it rejects, or resolves to a response with a status
\* and a body; the body is not JSON, or is an object with or without a
\* content array of elements with or without a text.
FetchResult(rejected, ok, json, hasContent, content) ==
    [rejected |-> rejected, ok |-> ok, json |-> json, hasContent |-> hasContent,
     content |-> content]

\* A request: its kind, where its handler stands (pc), its Authorization
\* header and input, c.get('userId'), the local variables its handler has
\* assigned so far (loc), the completion calls it has made and its response.
Idle ==
    [userId |-> 0, kind |-> "none", pc |-> "idle", header |-> NoHeader,
     input |-> NoData, loc |-> NoData, calls |-> 0, resp |-> NoResp]

NewReq(kind, header, input) ==
    [userId |-> 0, kind |-> kind, pc |-> IF kind = "login" THEN "login" ELSE "auth",
     header |-> header, input |-> input,
     loc |-> NoData, calls |-> 0, resp |-> NoResp]

Slots == DOMAIN reqs

Free(r) == reqs[r].pc \in {"idle", "done"}

Respond(r, resp) == reqs' = [reqs EXCEPT ![r].pc = "done", ![r].resp = resp]

\* a request arrives in a free slot
Start(r, kind, header, input) ==
    /\ Free(r)
    /\ reqs' = [reqs EXCEPT ![r] = NewReq(kind, header, input)]
    /\ UNCHANGED store

(***************************************************************************)
(* authMiddleware                                                          *)
(***************************************************************************)
Unauthorized == ErrorResp(401, "Unauthorized")

InvalidToken == ErrorResp(401, "Invalid token")

authMiddleware(r) ==
    /\ reqs[r].pc = "auth"
    /\ LET authHeader == reqs[r].header
           token == Substring7(authHeader)
       IN  IF ~authHeader.present \/ ~StartsWithBearer(authHeader)
           THEN Respond(r, Unauthorized)
           ELSE IF ~verifyOk(token, JWT_SECRET)
           THEN Respond(r, InvalidToken)
           ELSE reqs' = [reqs EXCEPT ![r].userId = verifyPayload(token).userId,
                                     ![r].pc = reqs[r].kind]
    /\ UNCHANGED store

(***************************************************************************)
(* POST /auth/login                                                        *)
(***************************************************************************)
UserIds == {users[i].id : i \in DOMAIN users}

\* db.select().from(users).where(eq(users.email, email))
UsersByEmail(email) == SelectSeq(users, LAMBDA u : u.email = email)

\* db.select().from(users).where(eq(users.id, id))
UsersById(id) == SelectSeq(users, LAMBDA u : u.id = id)

\* id integer primary key autoincrement: rows are never deleted
NextUserId == Len(users) + 1

UserView(user) == [id |-> user.id, email |-> user.email, name |-> user.name]

LoginResp(user) ==
    OkResp([token |-> sign([userId |-> user.id], JWT_SECRET), user |-> UserView(user)])

\* the validation and the select of the handler
LoginSelect(r) ==
    /\ reqs[r].pc = "login"
    /\ LET email == reqs[r].input.email
           found == UsersByEmail(ToText(email))
       IN  IF Falsy(email)
           THEN Respond(r, ErrorResp(400, "Email is required"))
           ELSE IF found # <<>>
           THEN Respond(r, LoginResp(found[1]))
           ELSE reqs' = [reqs EXCEPT ![r].pc = "loginInsert"]
    /\ UNCHANGED store

\* the insert of the handler, for a user the select did not find; the
\* unique constraint on users.email rejects a second row with the email
LoginInsert(r) ==
    /\ reqs[r].pc = "loginInsert"
    /\ LET email == ToText(reqs[r].input.email)
           user == [id |-> NextUserId, email |-> email,
                    name |-> OrElse(reqs[r].input.name, JNull)]
       IN  IF UsersByEmail(email) # <<>>
           THEN /\ Respond(r, ErrorResp(500, "Login failed"))
                /\ UNCHANGED users
           ELSE /\ users' = Append(users, user)
                /\ Respond(r, LoginResp(user))
    /\ UNCHANGED <<entries, facts>>

(***************************************************************************)
(* The store: rows in rowid order.  A user_entries row is                  *)
(* [id, userId, content, aiResponse, createdAt], a user_context row is     *)
(* [userId, contextKey, contextValue].  created_at defaults to             *)
(* CURRENT_TIMESTAMP, a text with a resolution of one second: a new row    *)
(* gets the second of the newest row or a later one.                       *)
(***************************************************************************)
MaxSameSecond == 2

RecentLimit == 5

Max(S) == CHOOSE x \in S : \A y \in S : y <= x

Min2(a, b) == IF a <= b THEN a ELSE b

LastTimestamp == IF entries = <<>> THEN 0 ELSE Max({entries[i].createdAt : i \in DOMAIN entries})

\* the values CURRENT_TIMESTAMP can take at the next insert
Timestamps ==
    LET same == Cardinality({i \in DOMAIN entries : entries[i].createdAt = LastTimestamp})
    IN  {LastTimestamp + 1} \cup
        (IF entries # <<>> /\ same < MaxSameSecond THEN {LastTimestamp} ELSE {})

\* db.select().from(userContext).where(eq(userContext.userId, userId))
ContextOf(userId) == SelectSeq(facts, LAMBDA ctx : ctx.userId = userId)

\* a select without the where clause
EntriesOfAnyUser(userId) == {entries[i] : i \in DOMAIN entries}

\* the rows of user_entries with eq(userEntries.userId, userId)
EntriesOf(userId) == {entries[i] : i \in {j \in DOMAIN entries : entries[j].userId = userId}}

\* .orderBy(desc(userEntries.createdAt)): every order of the rows with
\* created_at descending; rows of the same second come in any order
RECURSIVE DescOrders(_)
DescOrders(S) ==
    IF S = {} THEN {<<>>}
    ELSE LET newest == {e \in S : \A f \in S : f.createdAt <= e.createdAt}
         IN  UNION {{<<e>> \o rest : rest \in DescOrders(S \ {e})} : e \in newest}

\* a select without .offset(offset)
LimitOnly(rows, limit, offset) == SubSeq(rows, 1, Min2(limit, Len(rows)))

\* .limit(limit).offset(offset) of an ordered result
LimitOffset(rows, limit, offset) == SubSeq(rows, offset + 1, Min2(offset + limit, Len(rows)))

\* the results the select of a user's entries can return
SelectEntries(userId, limit, offset) ==
    {LimitOffset(rows, limit, offset) : rows \in DescOrders(EntriesOf(userId))}

(***************************************************************************)
(* POST /entries                                                           *)
(***************************************************************************)
\* a text is a sequence of pieces; arr.join(sep)
RECURSIVE Join(_, _)
Join(parts, sep) ==
    IF parts = <<>> THEN <<>>
    ELSE IF Len(parts) = 1 THEN parts[1]
    ELSE parts[1] \o <<sep>> \o Join(Tail(parts), sep)

\* the text is the empty string
EmptyText(text) == \A i \in DOMAIN text : text[i] = ""

TextOr(text, fallback) == IF EmptyText(text) THEN <<fallback>> ELSE text

RenderContext(ctx) == <<ctx.contextKey, ": ", ctx.contextValue>>

RenderEntry(entry) == <<"User: ", entry.content, "\nAI: ", ToText(entry.aiResponse)>>

contextString(userContextData) ==
    Join([i \in DOMAIN userContextData |-> RenderContext(userContextData[i])], ", ")

historyString(recentEntries) ==
    Join([i \in DOMAIN recentEntries |-> RenderEntry(recentEntries[i])], "\n\n")

\* the three holes of the prompt template; its fixed text is left out
aiPrompt(userContextData, recentEntries, content) ==
    [input |-> content,
     context |-> TextOr(contextString(userContextData), "No specific context available"),
     history |-> TextOr(historyString(recentEntries), "No previous conversations")]

GenerationFailed == ErrorResp(500, "Failed to generate recommendation")

\* validation, then the select of the user's context
PostEntriesContext(r) ==
    /\ reqs[r].pc = "postEntries"
    /\ IF Falsy(reqs[r].input.content)
       THEN Respond(r, ErrorResp(400, "Content is required"))
       ELSE reqs' = [reqs EXCEPT ![r].pc = "postEntriesRecent",
                                 ![r].loc = [userContextData |-> ContextOf(reqs[r].userId)]]
    /\ UNCHANGED store

\* the select of the recent entries, and the prompt
PostEntriesRecent(r) ==
    /\ reqs[r].pc = "postEntriesRecent"
    /\ \E recentEntries \in SelectEntries(reqs[r].userId, RecentLimit, 0) :
          reqs' = [reqs EXCEPT ![r].pc = "postEntriesFetch",
                               ![r].loc = [recentEntries |-> recentEntries,
                                           aiPrompt |-> aiPrompt(reqs[r].loc.userContextData,
                                                                 recentEntries,
                                                                 ToText(reqs[r].input.content))]]
    /\ UNCHANGED store

\* a handler without the check of aiResponse.ok
FetchThrowsStatusUnchecked(res) ==
    \/ res.rejected
    \/ ~res.json
    \/ ~res.hasContent
    \/ res.content = <<>>

\* fetch, aiResponse.ok, aiResponse.json() and aiData.content[0].text throw
FetchThrows(res) ==
    \/ res.rejected
    \/ ~res.ok
    \/ ~res.json
    \/ ~res.hasContent
    \/ res.content = <<>>

\* the text of the last content element instead of the first
recommendationOfLast(aiData) == aiData.content[Len(aiData.content)].text

\* aiData.content[0].text
recommendationOf(aiData) == aiData.content[1].text

\* the completion call and the reading of its response
PostEntriesFetch(r, res) ==
    /\ reqs[r].pc = "postEntriesFetch"
    /\ IF FetchThrows(res)
       THEN reqs' = [reqs EXCEPT ![r].pc = "done", ![r].resp = GenerationFailed,
                                 ![r].calls = @ + 1,
                                 ![r].loc = [aiResponse |-> res]]
       ELSE reqs' = [reqs EXCEPT ![r].pc = "postEntriesInsert",
                                 ![r].calls = @ + 1,
                                 ![r].loc = [aiResponse |-> res,
                                             recommendation |-> recommendationOf(res)]]
    /\ UNCHANGED store

NextEntryId == Len(entries) + 1

\* the insert of the entry; user_id references users.id
PostEntriesInsert(r) ==
    /\ reqs[r].pc = "postEntriesInsert"
    /\ \E now \in Timestamps :
          LET recommendation == reqs[r].loc.recommendation
              newEntry == [userId |-> reqs[r].userId,
                           content |-> ToText(reqs[r].input.content),
                           id |-> NextEntryId,
                           createdAt |-> now,
                           aiResponse |-> ColumnValue(recommendation)]
          IN  IF UsersById(reqs[r].userId) = <<>>
              THEN /\ Respond(r, GenerationFailed)
                   /\ UNCHANGED entries
              ELSE /\ entries' = Append(entries, newEntry)
                   /\ Respond(r, OkResp([entry |-> newEntry, recommendation |-> recommendation]))
    /\ UNCHANGED <<users, facts>>

(***************************************************************************)
(* GET /entries                                                            *)
(***************************************************************************)
\* a query parameter: absent, or a string of decimal digits
QAbsent == [present |-> FALSE, digits |-> <<>>]

QStr(digits) == [present |-> TRUE, digits |-> digits]

\* c.req.query(name) || dflt
QueryOr(q, dflt) == IF ~q.present \/ q.digits = <<>> THEN dflt ELSE q.digits

\* Number.parseInt of a non-empty string of decimal digits
RECURSIVE parseInt(_)
parseInt(digits) ==
    IF Len(digits) = 1 THEN digits[1]
    ELSE 10 * parseInt(SubSeq(digits, 1, Len(digits) - 1)) + digits[Len(digits)]

DefaultLimit == <<2, 0>>

DefaultOffset == <<0>>

GetEntries(r) ==
    /\ reqs[r].pc = "getEntries"
    /\ LET limit == parseInt(QueryOr(reqs[r].input.limit, DefaultLimit))
           offset == parseInt(QueryOr(reqs[r].input.offset, DefaultOffset))
       IN  \E rows \in SelectEntries(reqs[r].userId, limit, offset) :
              reqs' = [reqs EXCEPT ![r].pc = "done",
                                   ![r].loc = [limit |-> limit, offset |-> offset],
                                   ![r].resp = OkResp([entries |-> rows])]
    /\ UNCHANGED store

(***************************************************************************)
(* GET /profile                                                            *)
(***************************************************************************)
\* the forEach of the handler: context[key] is created empty when unset,
\* then the value is pushed
RECURSIVE GroupByKey(_, _)
GroupByKey(contextData, context) ==
    IF contextData = <<>> THEN context
    ELSE LET item == contextData[1]
             had == IF item.contextKey \in DOMAIN context
                    THEN context[item.contextKey] ELSE <<>>
         IN  GroupByKey(Tail(contextData),
                        (item.contextKey :> Append(had, item.contextValue)) @@ context)

\* the select of the user row
GetProfileUser(r) ==
    /\ reqs[r].pc = "getProfile"
    /\ reqs' = [reqs EXCEPT ![r].pc = "getProfileContext",
                            ![r].loc = [user |-> UsersById(reqs[r].userId)]]
    /\ UNCHANGED store

\* the select of the context rows, and the grouping; user.id throws when
\* the select found no user
GetProfileContext(r) ==
    /\ reqs[r].pc = "getProfileContext"
    /\ LET user == reqs[r].loc.user
           context == GroupByKey(ContextOf(reqs[r].userId), <<>>)
       IN  IF user = <<>>
           THEN Respond(r, ErrorResp(500, "Failed to fetch profile"))
           ELSE Respond(r, OkResp([user |-> UserView(user[1]), context |-> context]))
    /\ UNCHANGED store

(***************************************************************************)
(* PUT /profile                                                            *)
(***************************************************************************)
\* The body: JSON null, or an object, a sequence of pairs with distinct
\* keys whose value is an array of values or a single value.
NullBody == [null |-> TRUE, pairs |-> <<>>]

ObjectBody(pairs) == [null |-> FALSE, pairs |-> pairs]

ArrayPair(key, items) == [key |-> key, items |-> items, isArray |-> TRUE, value |-> JUndef]

ValuePair(key, value) == [key |-> key, items |-> <<>>, isArray |-> FALSE, value |-> value]

\* the rows pushed for one key of the body
PairEntries(userId, pair) ==
    IF pair.isArray
    THEN [i \in DOMAIN pair.items |->
            [userId |-> userId, contextKey |-> pair.key, contextValue |-> pair.items[i]]]
    ELSE <<[userId |-> userId, contextKey |-> pair.key,
            contextValue |-> JStr(ToText(pair.value))]>>

\* the loop over Object.entries(contextUpdates)
RECURSIVE contextEntries(_, _)
contextEntries(userId, pairs) ==
    IF pairs = <<>> THEN <<>>
    ELSE PairEntries(userId, pairs[1]) \o contextEntries(userId, Tail(pairs))

\* context_value text not null
InsertRejected(rows) == \E i \in DOMAIN rows : rows[i].contextValue.t # "string"

StoredContext(rows) ==
    [i \in DOMAIN rows |->
        [userId |-> rows[i].userId, contextKey |-> rows[i].contextKey,
         contextValue |-> rows[i].contextValue.s]]

UpdateFailed == ErrorResp(500, "Failed to update profile")

\* an update that merges: nothing is deleted
DeleteContextNothing(rows, userId) == rows

\* db.delete(userContext).where(eq(userContext.userId, userId))
DeleteContext(rows, userId) == SelectSeq(rows, LAMBDA ctx : ctx.userId # userId)

PutProfileDelete(r) ==
    /\ reqs[r].pc = "putProfile"
    /\ facts' = DeleteContext(facts, reqs[r].userId)
    /\ reqs' = [reqs EXCEPT ![r].pc = "putProfileInsert"]
    /\ UNCHANGED <<users, entries>>

\* Object.entries(null) throws; the batch insert is one statement
PutProfileInsert(r) ==
    /\ reqs[r].pc = "putProfileInsert"
    /\ LET rows == contextEntries(reqs[r].userId, reqs[r].input.pairs)
       IN  IF reqs[r].input.null
           THEN /\ Respond(r, UpdateFailed)
                /\ UNCHANGED facts
           ELSE IF Len(rows) > 0 /\ (InsertRejected(rows) \/ UsersById(reqs[r].userId) = <<>>)
           THEN /\ Respond(r, UpdateFailed)
                /\ UNCHANGED facts
           ELSE /\ facts' = facts \o StoredContext(rows)
                /\ Respond(r, OkResp([message |-> "Profile updated successfully", success |-> TRUE]))
    /\ UNCHANGED <<users, entries>>

(***************************************************************************)
(* The requests a client can send.                                         *)
(***************************************************************************)
MaxEntries == 8

MaxEntriesSmall == 2

\* the tokens POST /auth/login has issued, and tokens signed by someone else
IssuedTokens == {sign([userId |-> id], JWT_SECRET) : id \in UserIds}

ForgedTokens == {sign([userId |-> id], OtherSecret) : id \in UserIds \cup {1}}

GoodHeaders == {Header("Bearer ", token) : token \in IssuedTokens}

BadHeaders ==
    {NoHeader} \cup {Header("Basic ", token) : token \in IssuedTokens}
               \cup {Header("Bearer ", token) : token \in ForgedTokens}

InFlight(r) == ~Free(r)

\* the entries stored or about to be
PendingEntries ==
    Len(entries) + Cardinality({r \in Slots : InFlight(r) /\ reqs[r].kind = "postEntries"})

Login(r, Emails, Names) ==
    \E email \in Emails, name \in Names :
        Start(r, "login", NoHeader, [email |-> email, name |-> name])

SubmitEntry(r, Headers, Contents, bound) ==
    /\ PendingEntries < bound
    /\ \E header \in Headers, content \in Contents :
          Start(r, "postEntries", header, [content |-> content])

ListEntries(r, Headers, Limits, Offsets) ==
    \E header \in Headers, limit \in Limits, offset \in Offsets :
        Start(r, "getEntries", header, [limit |-> limit, offset |-> offset])

ReadProfile(r, Headers) ==
    \E header \in Headers : Start(r, "getProfile", header, NoData)

UpdateProfile(r, Headers, Bodies) ==
    \E header \in Headers, body \in Bodies : Start(r, "putProfile", header, body)

Emails == {JStr("a@x"), JStr("b@x")}

\* what the completion service can answer
TextElement(text) == [text |-> text]

GoodFetch(text) == FetchResult(FALSE, TRUE, TRUE, TRUE, <<TextElement(JStr(text))>>)

FailedFetches ==
    {FetchResult(TRUE, FALSE, FALSE, FALSE, <<>>),    \* fetch rejects
     FetchResult(FALSE, FALSE, TRUE, TRUE, <<TextElement(JStr("overloaded"))>>), \* status not ok
     FetchResult(FALSE, TRUE, FALSE, FALSE, <<>>),    \* body is not JSON
     FetchResult(FALSE, TRUE, TRUE, FALSE, <<>>),     \* body has no content
     FetchResult(FALSE, TRUE, TRUE, TRUE, <<>>)}      \* content is empty

Fetches ==
    FailedFetches \cup
    {GoodFetch("rest"),
     FetchResult(FALSE, TRUE, TRUE, TRUE, <<TextElement(JStr("walk")), TextElement(JStr("rest"))>>),
     FetchResult(FALSE, TRUE, TRUE, TRUE, <<TextElement(JUndef)>>)}  \* first element without text

\* bodies of PUT /profile
MoodGoal ==
    ObjectBody(<<ArrayPair("mood", <<JStr("happy"), JStr("calm")>>),
                 ValuePair("goal", JStr("sleep"))>>)

GoalOnly == ObjectBody(<<ValuePair("goal", JStr("rest"))>>)

Bodies ==
    {MoodGoal, GoalOnly, NullBody, ObjectBody(<<>>),
     ObjectBody(<<ArrayPair("mood", <<>>), ValuePair("goal", JNull)>>),
     ObjectBody(<<ArrayPair("mood", <<JStr("calm"), JNull>>)>>)}

OneSlot == {1}

TwoSlots == {1, 2}

InitStore ==
    /\ users = <<>>
    /\ entries = <<>>
    /\ facts = <<>>

(***************************************************************************)
(* SpecEntry: logins, profile updates and entry submissions, one request   *)
(* at a time.                                                              *)
(***************************************************************************)
EntryLogin(r) == Login(r, Emails, {JUndef})

EntryUpdateProfile(r) == UpdateProfile(r, GoodHeaders, {GoalOnly})

EntrySubmit(r) ==
    SubmitEntry(r, GoodHeaders, {JUndef, JStr(""), JStr("tired")}, MaxEntriesSmall)

EntryFetch(r) == \E res \in Fetches : PostEntriesFetch(r, res)

InitEntry == InitStore /\ reqs = [r \in OneSlot |-> Idle]

NextEntry ==
    \E r \in OneSlot :
        \/ EntryLogin(r)
        \/ EntryUpdateProfile(r)
        \/ EntrySubmit(r)
        \/ authMiddleware(r)
        \/ LoginSelect(r)
        \/ LoginInsert(r)
        \/ PutProfileDelete(r)
        \/ PutProfileInsert(r)
        \/ PostEntriesContext(r)
        \/ PostEntriesRecent(r)
        \/ EntryFetch(r)
        \/ PostEntriesInsert(r)

SpecEntry == InitEntry /\ [][NextEntry]_vars

(***************************************************************************)
(* SpecAuth: every protected endpoint, with and without a valid token,     *)
(* one request at a time.                                                  *)
(***************************************************************************)
AnyHeaders == GoodHeaders \cup BadHeaders

AuthLogin(r) == Login(r, Emails, {JUndef})

AuthSubmit(r) == SubmitEntry(r, AnyHeaders, {JStr("tired")}, MaxEntriesSmall)

AuthListEntries(r) == ListEntries(r, AnyHeaders, {QAbsent}, {QAbsent})

AuthReadProfile(r) == ReadProfile(r, AnyHeaders)

AuthUpdateProfile(r) == UpdateProfile(r, AnyHeaders, {GoalOnly})

AuthFetch(r) == \E res \in {GoodFetch("rest"), FetchResult(TRUE, FALSE, FALSE, FALSE, <<>>)} : PostEntriesFetch(r, res)

InitAuth == InitStore /\ reqs = [r \in OneSlot |-> Idle]

NextAuth ==
    \E r \in OneSlot :
        \/ AuthLogin(r)
        \/ AuthSubmit(r)
        \/ AuthListEntries(r)
        \/ AuthReadProfile(r)
        \/ AuthUpdateProfile(r)
        \/ authMiddleware(r)
        \/ LoginSelect(r)
        \/ LoginInsert(r)
        \/ PostEntriesContext(r)
        \/ PostEntriesRecent(r)
        \/ AuthFetch(r)
        \/ PostEntriesInsert(r)
        \/ GetEntries(r)
        \/ GetProfileUser(r)
        \/ GetProfileContext(r)
        \/ PutProfileDelete(r)
        \/ PutProfileInsert(r)

SpecAuth == InitAuth /\ [][NextAuth]_vars

(***************************************************************************)
(* SpecProfile: logins, profile updates and profile reads, one request at  *)
(* a time.                                                                 *)
(***************************************************************************)
ProfileLogin(r) == Login(r, Emails, {JUndef, JStr("Ann")})

ProfileUpdate(r) == UpdateProfile(r, GoodHeaders, Bodies)

ProfileRead(r) == ReadProfile(r, GoodHeaders)

InitProfile == InitStore /\ reqs = [r \in OneSlot |-> Idle]

NextProfile ==
    \E r \in OneSlot :
        \/ ProfileLogin(r)
        \/ ProfileUpdate(r)
        \/ ProfileRead(r)
        \/ authMiddleware(r)
        \/ LoginSelect(r)
        \/ LoginInsert(r)
        \/ GetProfileUser(r)
        \/ GetProfileContext(r)
        \/ PutProfileDelete(r)
        \/ PutProfileInsert(r)

SpecProfile == InitProfile /\ [][NextProfile]_vars

(***************************************************************************)
(* SpecPrompt: logins, profile updates and up to MaxEntries entry          *)
(* submissions, one request at a time; the users after the first submit    *)
(* up to MaxOtherEntries entries each.                                     *)
(***************************************************************************)
MaxOtherEntries == 1

PromptHeaders ==
    {Header("Bearer ", sign([userId |-> id], JWT_SECRET)) :
        id \in {u \in UserIds : u = 1 \/ Cardinality(EntriesOf(u)) < MaxOtherEntries}}

PromptLogin(r) == Login(r, Emails, {JUndef})

PromptUpdateProfile(r) == UpdateProfile(r, GoodHeaders, {MoodGoal})

PromptSubmit(r) == SubmitEntry(r, PromptHeaders, {JStr("tired")}, MaxEntries)

PromptFetch(r) == PostEntriesFetch(r, GoodFetch("rest"))

InitPrompt == InitStore /\ reqs = [r \in OneSlot |-> Idle]

NextPrompt ==
    \E r \in OneSlot :
        \/ PromptLogin(r)
        \/ PromptUpdateProfile(r)
        \/ PromptSubmit(r)
        \/ authMiddleware(r)
        \/ LoginSelect(r)
        \/ LoginInsert(r)
        \/ PutProfileDelete(r)
        \/ PutProfileInsert(r)
        \/ PostEntriesContext(r)
        \/ PostEntriesRecent(r)
        \/ PromptFetch(r)
        \/ PostEntriesInsert(r)

SpecPrompt == InitPrompt /\ [][NextPrompt]_vars

(***************************************************************************)
(* SpecList: logins, entry submissions and history reads, one request at   *)
(* a time.                                                                 *)
(***************************************************************************)
MaxEntriesList == 4

Limits == {QAbsent, QStr(<<>>), QStr(<<0>>), QStr(<<1>>), QStr(<<2>>), QStr(<<1, 0>>)}

Offsets == {QAbsent, QStr(<<>>), QStr(<<1>>), QStr(<<2>>)}

ListLogin(r) == Login(r, Emails, {JUndef})

ListSubmit(r) == SubmitEntry(r, GoodHeaders, {JStr("tired")}, MaxEntriesList)

ListFetch(r) == PostEntriesFetch(r, GoodFetch("rest"))

ListRead(r) == ListEntries(r, GoodHeaders, Limits, Offsets)

InitList == InitStore /\ reqs = [r \in OneSlot |-> Idle]

NextList ==
    \E r \in OneSlot :
        \/ ListLogin(r)
        \/ ListSubmit(r)
        \/ ListRead(r)
        \/ authMiddleware(r)
        \/ LoginSelect(r)
        \/ LoginInsert(r)
        \/ PostEntriesContext(r)
        \/ PostEntriesRecent(r)
        \/ ListFetch(r)
        \/ PostEntriesInsert(r)
        \/ GetEntries(r)

SpecList == InitList /\ [][NextList]_vars

(***************************************************************************)
(* SpecLogin: two logins at a time.                                        *)
(***************************************************************************)
RaceLogin(r) == Login(r, Emails \cup {JStr(""), JUndef}, {JUndef, JStr("Ann")})

InitLogin == InitStore /\ reqs = [r \in TwoSlots |-> Idle]

NextLogin ==
    \E r \in TwoSlots :
        \/ RaceLogin(r)
        \/ LoginSelect(r)
        \/ LoginInsert(r)

SpecLogin == InitLogin /\ [][NextLogin]_vars

(***************************************************************************)
(* SpecPut: logins and two profile updates at a time.                      *)
(***************************************************************************)
PutLogin(r) == Login(r, Emails, {JUndef})

PutUpdate(r) == UpdateProfile(r, GoodHeaders, {MoodGoal, GoalOnly})

InitPut == InitStore /\ reqs = [r \in TwoSlots |-> Idle]

NextPut ==
    \E r \in TwoSlots :
        \/ PutLogin(r)
        \/ PutUpdate(r)
        \/ authMiddleware(r)
        \/ LoginSelect(r)
        \/ LoginInsert(r)
        \/ PutProfileDelete(r)
        \/ PutProfileInsert(r)

SpecPut == InitPut /\ [][NextPut]_vars

(***************************************************************************)
(* SpecGate: logins and two requests to the protected reads at a time,     *)
(* with and without a valid token.                                         *)
(***************************************************************************)
GateLogin(r) == Login(r, Emails, {JUndef})

GateListEntries(r) == ListEntries(r, AnyHeaders, {QAbsent}, {QAbsent})

GateReadProfile(r) == ReadProfile(r, AnyHeaders)

InitGate == InitStore /\ reqs = [r \in TwoSlots |-> Idle]

NextGate ==
    \E r \in TwoSlots :
        \/ GateLogin(r)
        \/ GateListEntries(r)
        \/ GateReadProfile(r)
        \/ authMiddleware(r)
        \/ LoginSelect(r)
        \/ LoginInsert(r)
        \/ GetEntries(r)
        \/ GetProfileUser(r)
        \/ GetProfileContext(r)

SpecGate == InitGate /\ [][NextGate]_vars

(***************************************************************************)
(* Properties.                                                             *)
(***************************************************************************)
Done(r, kind) == reqs[r].kind = kind /\ reqs[r].pc = "done"

\* the request in slot r takes a step of its handler
Steps(r) == InFlight(r) /\ reqs'[r] # reqs[r]

\* the request in slot r is answered 200 in this step
Succeeds(r) == InFlight(r) /\ reqs'[r].pc = "done" /\ reqs'[r].resp.status = 200

\* the call failed: fetch rejected, the status was not a success, or the
\* body was malformed so that content[0].text could not be read
CallFailed(res) ==
    \/ res.rejected
    \/ ~res.rejected /\ ~res.ok
    \/ ~res.rejected /\ res.ok /\ (~res.json \/ ~res.hasContent \/ Len(res.content) = 0)

C1_State ==
    \A r \in Slots :
        reqs[r].kind = "postEntries" /\ reqs[r].calls > 0 /\ CallFailed(reqs[r].loc.aiResponse)
        => /\ reqs[r].pc = "done"
           /\ reqs[r].resp.status = 500
           /\ reqs[r].calls = 1

C1_Step ==
    \A r \in Slots :
        Steps(r) /\ reqs[r].kind = "postEntries" /\ reqs'[r].calls > 0
                 /\ CallFailed(reqs'[r].loc.aiResponse)
        => entries' = entries

FirstText(res) == res.content[1].text

C2_Success(r) ==
    LET newEntry == entries'[Len(entries')]
        text == FirstText(reqs'[r].loc.aiResponse)
    IN  /\ Len(entries') = Len(entries) + 1
        /\ SubSeq(entries', 1, Len(entries)) = entries
        /\ users' = users
        /\ facts' = facts
        /\ newEntry.userId = reqs[r].header.token.userId
        /\ JStr(newEntry.content) = reqs[r].input.content
        /\ text.t = "string" => newEntry.aiResponse = text
        /\ reqs'[r].resp.data.entry = newEntry
        /\ reqs'[r].resp.data.recommendation = text

C2_Step ==
    \A r \in Slots :
        Steps(r) /\ reqs[r].kind = "postEntries"
        => IF Succeeds(r) THEN C2_Success(r) ELSE store' = store

\* C2: a successful POST /entries request adds exactly one Entry row, owned
\* by the authenticated user, with the submitted content and with the
\* text of the first content element of the completion as aiResponse; the
\* response carries that row and that text; no other row of any table is
\* created, changed or deleted by the request.
C2_OneEntryPerSuccess == [][C2_Step]_vars

\* the second user's submission succeeded with the first of two content
\* elements, next to an entry of the first user
C2_Witness ==
    \E r \in Slots :
        /\ Done(r, "postEntries")
        /\ reqs[r].resp.status = 200
        /\ reqs[r].userId = 2
        /\ reqs[r].resp.data.recommendation = JStr("walk")
        /\ Len(entries) = 2
        /\ entries[1].userId = 1
        /\ entries[2] = reqs[r].resp.data.entry
        /\ entries[2].aiResponse = JStr("walk")
        /\ facts # <<>>

\* the content is the empty string or absent
EmptyOrAbsent(content) == content = JStr("") \/ content = JUndef

C3_State ==
    \A r \in Slots :
        reqs[r].kind = "postEntries" /\ EmptyOrAbsent(reqs[r].input.content)
        => /\ reqs[r].pc \in {"auth", "postEntries", "done"}
           /\ reqs[r].calls = 0
           /\ reqs[r].pc = "done" => reqs[r].resp.status = 400

C3_Step ==
    \A r \in Slots :
        Steps(r) /\ reqs[r].kind = "postEntries" /\ EmptyOrAbsent(reqs[r].input.content)
        => store' = store

\* C3: an authenticated POST /entries request whose content is empty or
\* absent is answered 400 before any later stage runs: the store is
\* unchanged (no Entry row, no ContextFact row) and the completion service
\* is not called.
C3_EmptyContentRejected == [](C3_State) /\ [][C3_Step]_vars

\* an authenticated request with the empty string as content was answered
\* 400 by a server that holds users, facts and an entry
C3_Witness ==
    \E r \in Slots :
        /\ Done(r, "postEntries")
        /\ reqs[r].input.content = JStr("")
        /\ reqs[r].userId \in UserIds
        /\ reqs[r].resp = ErrorResp(400, "Content is required")
        /\ facts # <<>>
        /\ entries # <<>>

Protected == {"postEntries", "getEntries", "getProfile", "putProfile"}

\* the header is `Bearer <token>` with a token signed with the server secret
Authentic(header) ==
    header.present /\ header.scheme = "Bearer " /\ header.token.sig = "server-secret"

C4_State ==
    \A r \in Slots :
        reqs[r].kind \in Protected
        => IF Authentic(reqs[r].header)
           THEN /\ reqs[r].pc # "auth" => reqs[r].userId = reqs[r].header.token.userId
                /\ reqs[r].pc = "done" => reqs[r].resp.status # 401
           ELSE /\ reqs[r].pc \in {"auth", "done"}
                /\ reqs[r].calls = 0
                /\ reqs[r].pc = "done" => reqs[r].resp.status = 401

\* the rows of user u in the tables that hold rows per user
RowsOf(u) == <<ContextOf(u), EntriesOf(u)>>

C4_Step ==
    \A r \in Slots :
        Steps(r) /\ reqs[r].kind \in Protected
        => IF Authentic(reqs[r].header)
           THEN /\ users' = users
                /\ \A u \in UserIds \ {reqs[r].header.token.userId} : RowsOf(u)' = RowsOf(u)
           ELSE store' = store

\* C4: on each protected endpoint a request whose Authorization header is
\* missing, is not `Bearer <token>` or carries a token that fails
\* verification is answered 401 without its handler running (store
\* unchanged, no completion call); a request with a valid token reaches the
\* handler, which acts with the userId claim of the token.
C4_AuthGate == [](C4_State) /\ [][C4_Step]_vars

\* a profile update with a forged token for user 1 was answered 401 while
\* user 1 has facts and an entry
C4_Witness ==
    \E r \in Slots :
        /\ Done(r, "putProfile")
        /\ reqs[r].header = Header("Bearer ", sign([userId |-> 1], OtherSecret))
        /\ reqs[r].resp.status = 401
        /\ ContextOf(1) # <<>>
        /\ EntriesOf(1) # {}

\* the (key, value) pairs of a user's ContextFact rows, in row order
FactPairs(u) ==
    [i \in DOMAIN ContextOf(u) |-> <<ContextOf(u)[i].contextKey, ContextOf(u)[i].contextValue>>]

BodyKeys(body) == {body.pairs[i].key : i \in DOMAIN body.pairs}

\* the values the body gives for a key: the elements of its array, or the
\* text of its single value
BodyValues(body, key) ==
    LET pair == body.pairs[CHOOSE i \in DOMAIN body.pairs : body.pairs[i].key = key]
    IN  IF pair.isArray THEN [i \in DOMAIN pair.items |-> pair.items[i].s]
        ELSE <<IF pair.value.t = "string" THEN pair.value.s ELSE pair.value.t>>

\* the user's rows are one per element of each array and one per other key
ReplacedBy(u, body) ==
    /\ \A i \in DOMAIN FactPairs(u) : FactPairs(u)[i][1] \in BodyKeys(body)
    /\ \A key \in BodyKeys(body) :
          SelectSeq(FactPairs(u), LAMBDA kv : kv[1] = key)
              = [i \in DOMAIN BodyValues(body, key) |-> <<key, BodyValues(body, key)[i]>>]

\* the context object of the user's rows: each key with its values
ContextObject(u) ==
    [key \in {FactPairs(u)[i][1] : i \in DOMAIN FactPairs(u)} |->
        LET rows == SelectSeq(FactPairs(u), LAMBDA kv : kv[1] = key)
        IN  [i \in DOMAIN rows |-> rows[i][2]]]

MoodGoalRows == <<<<"mood", "happy">>, <<"mood", "calm">>, <<"goal", "sleep">>>>

C5_State ==
    \A r \in Slots :
        /\ Done(r, "putProfile") /\ reqs[r].resp.status = 200
           => /\ ReplacedBy(reqs[r].userId, reqs[r].input)
              /\ reqs[r].input = MoodGoal => FactPairs(reqs[r].userId) = MoodGoalRows
        /\ Done(r, "getProfile") /\ reqs[r].resp.status = 200
           => /\ reqs[r].resp.data.context = ContextObject(reqs[r].userId)
              /\ FactPairs(reqs[r].userId) = MoodGoalRows
                 => reqs[r].resp.data.context
                        = [key \in {"mood", "goal"} |->
                              IF key = "mood" THEN <<"happy", "calm">> ELSE <<"sleep">>]

C5_Step ==
    \A r \in Slots :
        Steps(r) /\ reqs[r].kind \in {"putProfile", "getProfile"}
        => /\ users' = users
           /\ entries' = entries
           /\ \A u \in UserIds \ {reqs[r].header.token.userId} : ContextOf(u)' = ContextOf(u)

\* C5: a successful PUT /profile run alone replaces the user's
\* ContextFacts: afterwards the user's rows are one (key, value) row per
\* element of each array-valued key and one (key, String(value)) row per
\* other key of the body, the earlier rows are gone and other users' rows
\* are untouched; GET /profile then returns each key with the list of its
\* values ({mood:[happy,calm], goal:sleep} gives three rows and reads back
\* as {mood:[happy,calm], goal:[sleep]}).
C5_ProfileReplaced == [](C5_State) /\ [][C5_Step]_vars

\* user 1 reads back {mood:[happy,calm], goal:[sleep]} while user 2 holds
\* the row (goal, rest)
C5_Witness ==
    \E r \in Slots :
        /\ Done(r, "getProfile")
        /\ reqs[r].userId = 1
        /\ reqs[r].resp.status = 200
        /\ "mood" \in DOMAIN reqs[r].resp.data.context
        /\ reqs[r].resp.data.context["mood"] = <<"happy", "calm">>
        /\ FactPairs(1) = MoodGoalRows
        /\ FactPairs(2) = <<<<"goal", "rest">>>>

\* the slots that hold an answered profile update of user u
Updated(u) == {r \in Slots : Done(r, "putProfile") /\ reqs[r].userId = u}

\* a profile update of user u is between its delete and its answer
Updating(u) ==
    \E r \in Slots : reqs[r].pc \in {"putProfile", "putProfileInsert"} /\ reqs[r].userId = u

\* C6: a user's ContextFact set reflects only the most recent profile
\* update of that user: it is exactly the fact set one PUT /profile call
\* submitted, never a mixture of two calls and never a set no call
\* submitted, whatever the interleaving of the updates.  Stated where it
\* is weakest: once no update of the user is in progress, the user's rows
\* are those of one of the answered updates.
C6_LatestUpdateOnly ==
    \A u \in UserIds :
        ~Updating(u) /\ Updated(u) # {}
        => \E r \in Updated(u) : ReplacedBy(u, reqs[r].input)

\* two completed logins with the same email have returned the same user
LoginAnswered(r) == Done(r, "login") /\ reqs[r].input.email \in Emails

\* C7: logging in twice with a non-empty email, also when the two requests
\* overlap, returns the same user id both times, and there is exactly one
\* user row with that email.
C7_SameUserEveryLogin ==
    \A r \in Slots :
        LoginAnswered(r)
        => /\ reqs[r].resp.status = 200
           /\ Cardinality({i \in DOMAIN users : JStr(users[i].email) = reqs[r].input.email}) = 1
           /\ \A i \in DOMAIN users :
                 JStr(users[i].email) = reqs[r].input.email
                 => reqs[r].resp.data.user.id = users[i].id

\* the request was rejected by the auth gate
Rejected(r) ==
    reqs[r].kind \in Protected /\ reqs[r].pc = "done" /\ ~Authentic(reqs[r].header)

\* C9: any two requests rejected by the auth gate get the same response
\* (status and message), whichever check failed.
C9_UniformRejection ==
    \A r1, r2 \in Slots :
        Rejected(r1) /\ Rejected(r2) => reqs[r1].resp = reqs[r2].resp

\* the Entry rows of user u
UserEntries(u) == {entries[j] : j \in {i \in DOMAIN entries : entries[i].userId = u}}

\* how many of the user's entries were created after, or not before, entry e
Newer(u, e) == Cardinality({f \in UserEntries(u) : f.createdAt > e.createdAt})

NotOlder(u, e) == Cardinality({f \in UserEntries(u) : f.createdAt >= e.createdAt})

\* rows are the user's entries ranked offset+1, offset+2, ... newest first
\* by creation time, each once (entries of the same second share a rank)
Ranked(rows, u, offset) ==
    \A i \in DOMAIN rows :
        /\ rows[i] \in UserEntries(u)
        /\ \A k \in DOMAIN rows : k # i => rows[k].id # rows[i].id
        /\ Newer(u, rows[i]) <= offset + i - 1
        /\ NotOlder(u, rows[i]) >= offset + i
        /\ i > 1 => rows[i - 1].createdAt >= rows[i].createdAt

\* the context part of the prompt is the facts as `key: value` joined by `, `
FactsRendered(text, pairs) ==
    /\ Len(text) = 4 * Len(pairs) - 1
    /\ \A i \in DOMAIN pairs :
          /\ text[4 * i - 3] = pairs[i][1]
          /\ text[4 * i - 2] = ": "
          /\ text[4 * i - 1] = pairs[i][2]
          /\ i < Len(pairs) => text[4 * i] = ", "

\* the history part of the prompt is one block per row, a blank line between
BlocksRendered(text, rows) ==
    /\ Len(text) = 5 * Len(rows) - 1
    /\ \A i \in DOMAIN rows :
          /\ text[5 * i - 4] = "User: "
          /\ text[5 * i - 3] = rows[i].content
          /\ text[5 * i - 2] = "\nAI: "
          /\ JStr(text[5 * i - 1]) = rows[i].aiResponse
          /\ i < Len(rows) => text[5 * i] = "\n\n"

C8_State ==
    \A r \in Slots :
        reqs[r].kind = "postEntries" /\ reqs[r].pc = "postEntriesFetch"
        => LET u == reqs[r].userId
               prompt == reqs[r].loc.aiPrompt
               recent == reqs[r].loc.recentEntries
               N == Len(FactPairs(u))
               M == Cardinality(UserEntries(u))
           IN  /\ IF N = 0 THEN prompt.context = <<"No specific context available">>
                  ELSE FactsRendered(prompt.context, FactPairs(u))
               /\ IF M = 0 THEN prompt.history = <<"No previous conversations">>
                  ELSE BlocksRendered(prompt.history, recent)
               /\ Len(recent) = (IF M < 5 THEN M ELSE 5)
               /\ Ranked(recent, u, 0)
               /\ JStr(prompt.input) = reqs[r].input.content

C8_Step ==
    \A r \in Slots :
        Steps(r) /\ reqs[r].pc \in {"postEntries", "postEntriesRecent"} => store' = store

\* C8: the prompt of POST /entries holds exactly the user's N facts as
\* `key: value` joined by `, ` and exactly min(M, 5) blocks
\* `User: content\nAI: aiResponse` separated by blank lines, for the
\* user's 5 most recently created entries, newest first, and no other
\* user's data; with N = 0 it holds `No specific context available`, with
\* M = 0 `No previous conversations`; assembling it changes nothing in the
\* store.
C8_PromptAssembled == [](C8_State) /\ [][C8_Step]_vars

\* the prompt of user 1, who has three facts and six entries, the newest
\* two of the same second, next to facts and an entry of user 2
C8_Witness ==
    \E r \in Slots :
        /\ reqs[r].kind = "postEntries" /\ reqs[r].pc = "postEntriesFetch"
        /\ reqs[r].userId = 1
        /\ Len(FactPairs(1)) = 3
        /\ Cardinality(UserEntries(1)) = 6
        /\ Len(reqs[r].loc.aiPrompt.history) = 24
        /\ reqs[r].loc.recentEntries[1].id = 6
        /\ reqs[r].loc.recentEntries[2].id = 7
        /\ reqs[r].loc.recentEntries[1].createdAt = reqs[r].loc.recentEntries[2].createdAt
        /\ UserEntries(2) # {}
        /\ FactPairs(2) # <<>>

\* the number a string of decimal digits denotes
RECURSIVE Decimal(_, _)
Decimal(digits, i) ==
    IF i > Len(digits) THEN 0
    ELSE digits[i] * 10 ^ (Len(digits) - i) + Decimal(digits, i + 1)

\* the value of a query parameter, dflt when it is omitted (or empty)
Param(q, dflt) == IF q.present /\ Len(q.digits) > 0 THEN Decimal(q.digits, 1) ELSE dflt

C10_State ==
    \A r \in Slots :
        Done(r, "getEntries") /\ reqs[r].resp.status = 200
        => LET u == reqs[r].userId
               L == Param(reqs[r].input.limit, 20)
               O == Param(reqs[r].input.offset, 0)
               M == Cardinality(UserEntries(u))
               rows == reqs[r].resp.data.entries
           IN  /\ reqs[r].loc.limit = L
               /\ reqs[r].loc.offset = O
               /\ Len(rows) = (IF M >= O + L THEN L ELSE IF M > O THEN M - O ELSE 0)
               /\ Ranked(rows, u, O)

C10_Step == \A r \in Slots : Steps(r) /\ reqs[r].kind = "getEntries" => store' = store

\* C10: GET /entries with limit L and offset O returns, for a user with at
\* least O + L entries, exactly L rows: the user's entries ranked O+1 to
\* O+L newest first, none of another user (limit=2&offset=1 gives 2 rows
\* from the second-newest on); L is 20 and O is 0 when omitted; the
\* request changes nothing in the store.
C10_HistoryPage == [](C10_State) /\ [][C10_Step]_vars

\* limit=2&offset=1 for user 1 with three entries of three seconds gives
\* the second-newest and the oldest, skipping the entry of user 2
C10_Witness ==
    \E r \in Slots :
        /\ Done(r, "getEntries")
        /\ reqs[r].input = [limit |-> QStr(<<2>>), offset |-> QStr(<<1>>)]
        /\ reqs[r].userId = 1
        /\ Cardinality(UserEntries(1)) = 3
        /\ Cardinality(UserEntries(2)) = 1
        /\ Len(reqs[r].resp.data.entries) = 2
        /\ Newer(1, reqs[r].resp.data.entries[1]) = 1
        /\ Newer(1, reqs[r].resp.data.entries[2]) = 2

====
